---- MODULE Spec2Model ----
(***************************************************************************)
(* The `name` table parser of ttf-parser (src/src/name.rs): the Names      *)
(* iterator, Name::name, the Unicode test and the family / PostScript name *)
(* resolution, over name tables given as byte sequences.                   *)
(***************************************************************************)
EXTENDS Integers, Sequences, FiniteSets, TLC

VARIABLES
    font,             \* Font.name: [present, data], the table's bytes, fixed for a run
    overflow_checks,  \* the build: TRUE when integer overflow panics, FALSE when it wraps
    pc,               \* "start", "iter" (a Names iterator is held) or "panicked"
    iter,             \* the Names iterator the caller holds
    yielded,          \* the records next() has returned since names(), in order
    ret               \* the last call: [op, arg, val]

vars == <<font, overflow_checks, pc, iter, yielded, ret>>

----------------------------------------------------------------------------
\* Values

None == [kind |-> "None"]
Some(v) == [kind |-> "Some", val |-> v]
Panic == [kind |-> "Panic"]
Err(e) == [ok |-> FALSE, err |-> e]
Ok(v) == [ok |-> TRUE, val |-> v]

U16_RANGE == 65536

\* Big-endian u16 at byte position pos (0-based) of bytes.
BeU16(bytes, pos) == bytes[pos + 1] * 256 + bytes[pos + 2]

\* The two bytes of a u16, big-endian.
U16Bytes(v) == <<v \div 256, v % 256>>

\* <[T]>::get(start..end) for in-range integers.
SliceGet(s, start, end) ==
    IF start <= end /\ end <= Len(s) THEN Some(SubSeq(s, start + 1, end)) ELSE None

----------------------------------------------------------------------------
\* usize: a machine word as little-endian 16-bit limbs, so that 12 * n and
\* start + 12 overflow as they do in the machine.

USIZE_LIMBS == 4

Limbs == 1..USIZE_LIMBS

UsizeFromInt(i) == [k \in Limbs |-> IF k = 1 THEN i % U16_RANGE
                                    ELSE IF k = 2 THEN i \div U16_RANGE ELSE 0]

\* The carry into limb k of w * m + a.
RECURSIVE MulAddCarry(_, _, _, _)
MulAddCarry(w, m, a, k) ==
    IF k = 1 THEN a ELSE (w[k - 1] * m + MulAddCarry(w, m, a, k - 1)) \div U16_RANGE

\* w * m + a in usize: [val, overflow].
UsizeMulAdd(w, m, a) ==
    [val |-> [k \in Limbs |-> (w[k] * m + MulAddCarry(w, m, a, k)) % U16_RANGE],
     overflow |-> MulAddCarry(w, m, a, USIZE_LIMBS + 1) # 0]

\* a <= b on words.
RECURSIVE UsizeLeqFrom(_, _, _)
UsizeLeqFrom(a, b, k) ==
    IF k = 0 THEN TRUE
    ELSE IF a[k] # b[k] THEN a[k] < b[k]
    ELSE UsizeLeqFrom(a, b, k - 1)

UsizeLeq(a, b) == UsizeLeqFrom(a, b, USIZE_LIMBS)

\* The integer a word holds; used only once the word is known to be at most a
\* slice length.
UsizeToInt(w) == w[1] + U16_RANGE * w[2]

----------------------------------------------------------------------------
\* crate::parser::Stream

Stream_new(data) == [data |-> data, offset |-> 0]

\* s.read::<u16>(): [ok, val, s].
Stream_read_u16(s) ==
    IF s.offset + 2 <= Len(s.data)
    THEN [ok |-> TRUE, val |-> BeU16(s.data, s.offset),
          s |-> [s EXCEPT !.offset = s.offset + 2]]
    ELSE [ok |-> FALSE, s |-> [s EXCEPT !.offset = s.offset + 2]]

\* s.skip::<u16>() and s.advance(len): the position moves, nothing is read.
Stream_advance(s, len) == [s EXCEPT !.offset = s.offset + len]

\* s.read_bytes(len): [ok, val, s].
Stream_read_bytes(s, len) ==
    LET got == SliceGet(s.data, s.offset, s.offset + len)
    IN  [ok |-> got.kind = "Some",
         val |-> IF got.kind = "Some" THEN got.val ELSE <<>>,
         s |-> [s EXCEPT !.offset = s.offset + len]]

\* s.tail(): [ok, val].
Stream_tail(s) ==
    LET got == SliceGet(s.data, s.offset, Len(s.data))
    IN  [ok |-> got.kind = "Some",
         val |-> IF got.kind = "Some" THEN got.val ELSE <<>>]

----------------------------------------------------------------------------
\* crate::raw::name::NameRecord: six big-endian u16 fields in 12 bytes.

NameRecord_SIZE == 12

NameRecord_platform_id(d) == BeU16(d, 0)
NameRecord_encoding_id(d) == BeU16(d, 2)
NameRecord_language_id(d) == BeU16(d, 4)
NameRecord_name_id(d) == BeU16(d, 6)
NameRecord_offset(d) == BeU16(d, 8)
NameRecord_length(d) == BeU16(d, 10)

----------------------------------------------------------------------------
\* name_id

FAMILY == 1
POST_SCRIPT_NAME == 6
TYPOGRAPHIC_FAMILY == 16

\* PlatformId::from_u16
PlatformId_from_u16(n) ==
    CASE n = 0 -> Some("Unicode")
      [] n = 1 -> Some("Macintosh")
      [] n = 2 -> Some("Iso")
      [] n = 3 -> Some("Windows")
      [] n = 4 -> Some("Custom")
      [] OTHER -> None

WINDOWS_UNICODE_BMP_ENCODING_ID == 1

is_unicode_encoding(platform_id, encoding_id) ==
    CASE platform_id = "Unicode" -> TRUE
      [] platform_id = "Windows" /\ encoding_id = WINDOWS_UNICODE_BMP_ENCODING_ID -> TRUE
      [] OTHER -> FALSE

----------------------------------------------------------------------------
\* Name: [data (the 12 record bytes), strings (the storage)]

Name_platform_id(self) == PlatformId_from_u16(NameRecord_platform_id(self.data))
Name_encoding_id(self) == NameRecord_encoding_id(self.data)
Name_name_id(self) == NameRecord_name_id(self.data)

\* Name::name with the slice end clamped to the storage: a truncated slice.
Name_name_clamped(self) ==
    LET start == NameRecord_offset(self.data)
        end == start + NameRecord_length(self.data)
        got == SliceGet(self.strings, start,
                        IF end <= Len(self.strings) THEN end ELSE Len(self.strings))
    IN  IF got.kind = "Some" THEN got.val ELSE <<>>

\* Name::name
Name_name(self) ==
    LET start == NameRecord_offset(self.data)
        end == start + NameRecord_length(self.data)
        got == SliceGet(self.strings, start, end)
    IN  IF got.kind = "Some" THEN got.val ELSE <<>>

\* Name::is_unicode: TRUE, FALSE, or Panic when platform_id() is None (unwrap).
Name_is_unicode(self) ==
    LET p == Name_platform_id(self)
    IN  IF p.kind = "None" THEN Panic
        ELSE Some(is_unicode_encoding(p.val, Name_encoding_id(self)))

\* The code units LazyArray::<u16>::new(bytes) yields: Len(bytes) / 2 of them,
\* big-endian; a trailing odd byte is ignored.
LazyArray_u16(bytes) == [i \in 1..(Len(bytes) \div 2) |-> BeU16(bytes, 2 * (i - 1))]

IsHighSurrogate(u) == 55296 <= u /\ u <= 56319
IsLowSurrogate(u) == 56320 <= u /\ u <= 57343

\* String::from_utf16(units).ok(): the scalar values, None on an unpaired surrogate.
RECURSIVE String_from_utf16(_, _, _)
String_from_utf16(units, i, acc) ==
    IF i > Len(units) THEN Some(acc)
    ELSE IF IsHighSurrogate(units[i])
         THEN IF i < Len(units) /\ IsLowSurrogate(units[i + 1])
              THEN String_from_utf16(units, i + 2,
                       Append(acc, 65536 + (units[i] - 55296) * 1024 + (units[i + 1] - 56320)))
              ELSE None
    ELSE IF IsLowSurrogate(units[i]) THEN None
    ELSE String_from_utf16(units, i + 1, Append(acc, units[i]))

\* Name::name_from_utf16_be
Name_name_from_utf16_be(self) == String_from_utf16(LazyArray_u16(Name_name(self)), 1, <<>>)

\* Name::name_utf8
Name_name_utf8(self) ==
    LET u == Name_is_unicode(self)
    IN  IF u.kind = "Panic" THEN Panic
        ELSE IF u.val THEN Name_name_from_utf16_be(self)
        ELSE None

----------------------------------------------------------------------------
\* Names: [names (the record region), storage, index, total]

\* Names::new
Names_new(names, storage) ==
    [names |-> names, storage |-> storage, index |-> 0,
     total |-> (Len(names) \div NameRecord_SIZE) % U16_RANGE]

\* Iterator::nth as the trait's default has it: skip n items from the current
\* position, then next().
Names_nth_relative(self, n, oc) ==
    LET left == UsizeFromInt(self.total - self.index)
        at == self.index + UsizeToInt(n)
    IN  IF UsizeLeq(left, n)
        THEN [self |-> [self EXCEPT !.index = self.total], out |-> None]
        ELSE [self |-> [self EXCEPT !.index = at + 1],
              out |-> Some([data |-> SubSeq(self.names, NameRecord_SIZE * at + 1,
                                            NameRecord_SIZE * at + NameRecord_SIZE),
                            strings |-> self.storage])]

\* Names::nth: [self, out]. oc: the build panics on integer overflow.
Names_nth(self, n, oc) ==
    LET start == UsizeMulAdd(n, NameRecord_SIZE, 0)
        end == UsizeMulAdd(start.val, 1, NameRecord_SIZE)
        len == UsizeFromInt(Len(self.names))
    IN  IF oc /\ (start.overflow \/ end.overflow)
        THEN [self |-> self, out |-> Panic]
        ELSE IF UsizeLeq(start.val, end.val) /\ UsizeLeq(end.val, len)
        THEN [self |-> self,
              out |-> Some([data |-> SubSeq(self.names, UsizeToInt(start.val) + 1,
                                            UsizeToInt(end.val)),
                            strings |-> self.storage])]
        ELSE [self |-> self, out |-> None]

\* Names::next fetching the record at the incremented index.
Names_next_off_by_one(self, oc) ==
    IF self.index < self.total
    THEN Names_nth([self EXCEPT !.index = self.index + 1], UsizeFromInt(self.index + 1), oc)
    ELSE [self |-> self, out |-> None]

\* Names::next: [self, out]
Names_next(self, oc) ==
    IF self.index < self.total
    THEN Names_nth([self EXCEPT !.index = self.index + 1], UsizeFromInt(self.index + 1 - 1), oc)
    ELSE [self |-> self, out |-> None]

----------------------------------------------------------------------------
\* Font

LANG_TAG_RECORD_SIZE == 4

EmptyNames == [names |-> <<>>, storage |-> <<>>, index |-> 0, total |-> 0]

\* lang_tag_count * LANG_TAG_RECORD_SIZE wrapping in 16 bits.
lang_tag_len_wrapping(lang_tag_count) ==
    Ok((lang_tag_count * LANG_TAG_RECORD_SIZE) % U16_RANGE)

\* lang_tag_count.checked_mul(LANG_TAG_RECORD_SIZE).ok_or_else(..)
lang_tag_len(lang_tag_count) ==
    IF lang_tag_count * LANG_TAG_RECORD_SIZE < U16_RANGE
    THEN Ok(lang_tag_count * LANG_TAG_RECORD_SIZE)
    ELSE Err("NotATrueType")

\* read_names that takes the records that are present when fewer than count are.
read_names_lenient(s, count) ==
    LET want == NameRecord_SIZE * count
        have == IF s.offset <= Len(s.data) THEN Len(s.data) - s.offset ELSE 0
        records == Stream_read_bytes(s, IF want <= have THEN want ELSE have)
        storage == Stream_tail(records.s)
    IN  IF ~records.ok THEN Err("ReadOutOfBounds")
        ELSE IF ~storage.ok THEN Err("ReadOutOfBounds")
        ELSE Ok(Names_new(records.val, storage.val))

\* read_names with the storage taken before the records are read.
read_names_tail_first(s, count) ==
    LET storage == Stream_tail(s)
        records == Stream_read_bytes(s, NameRecord_SIZE * count)
    IN  IF ~storage.ok THEN Err("ReadOutOfBounds")
        ELSE IF ~records.ok THEN Err("ReadOutOfBounds")
        ELSE Ok(Names_new(records.val, storage.val))

\* Names::new(s.read_bytes(NameRecord::SIZE as u32 * count as u32)?, s.tail()?)
read_names(s, count) ==
    LET records == Stream_read_bytes(s, NameRecord_SIZE * count)
        storage == Stream_tail(records.s)
    IN  IF ~records.ok THEN Err("ReadOutOfBounds")
        ELSE IF ~storage.ok THEN Err("ReadOutOfBounds")
        ELSE Ok(Names_new(records.val, storage.val))

\* Font::_names
_names(f) ==
    IF ~f.present THEN Err("TableMissing")
    ELSE
    LET s == Stream_new(f.data)
        format == Stream_read_u16(s)
    IN  IF ~format.ok THEN Err("ReadOutOfBounds")
        ELSE
        LET count == Stream_read_u16(format.s)
        IN  IF ~count.ok THEN Err("ReadOutOfBounds")
            ELSE
            LET s3 == Stream_advance(count.s, 2)
            IN  IF format.val = 0 THEN read_names(s3, count.val)
                ELSE IF format.val = 1
                THEN LET lang_tag_count == Stream_read_u16(s3)
                     IN  IF ~lang_tag_count.ok THEN Err("ReadOutOfBounds")
                         ELSE
                         LET len == lang_tag_len(lang_tag_count.val)
                         IN  IF ~len.ok THEN Err("NotATrueType")
                             ELSE read_names(Stream_advance(lang_tag_count.s, len.val),
                                             count.val)
                ELSE Err("NotATrueType")

\* Font::names
names(f) ==
    LET r == _names(f)
    IN  IF r.ok THEN r.val ELSE EmptyNames

\* a && name.is_unicode(): the right side is evaluated only when a holds.
AndIsUnicode(a, name) == IF a THEN Name_is_unicode(name) ELSE Some(FALSE)

\* The loop of Font::family_name over a copy of the iterator: the final idx
\* (None or Some(i)), or Panic.
RECURSIVE family_name_loop(_, _, _, _)
family_name_loop(it, i, idx, oc) ==
    LET r == Names_next(it, oc)
    IN  IF r.out.kind = "Panic" THEN Panic
        ELSE IF r.out.kind = "None" THEN Some(idx)
        ELSE
        LET name == r.out.val
            typo == AndIsUnicode(Name_name_id(name) = TYPOGRAPHIC_FAMILY, name)
        IN  IF typo.kind = "Panic" THEN Panic
            ELSE IF typo.val THEN Some(Some(i))
            ELSE
            LET fam == AndIsUnicode(Name_name_id(name) = FAMILY, name)
            IN  IF fam.kind = "Panic" THEN Panic
                ELSE family_name_loop(r.self, i + 1, IF fam.val THEN Some(i) ELSE idx, oc)

\* Font::family_name
family_name(f, oc) ==
    LET it == names(f)
        idx == family_name_loop(it, 0, None, oc)
    IN  IF idx.kind = "Panic" THEN Panic
        ELSE IF idx.val.kind = "None" THEN None
        ELSE
        LET name == Names_nth(it, UsizeFromInt(idx.val.val), oc).out
        IN  IF name.kind = "Some" THEN Name_name_from_utf16_be(name.val) ELSE name

\* Iterator::find of Font::post_script_name, then and_then(name_from_utf16_be).
RECURSIVE post_script_name_find(_, _)
post_script_name_find(it, oc) ==
    LET r == Names_next(it, oc)
    IN  IF r.out.kind # "Some" THEN r.out
        ELSE
        LET hit == AndIsUnicode(Name_name_id(r.out.val) = POST_SCRIPT_NAME, r.out.val)
        IN  IF hit.kind = "Panic" THEN Panic
            ELSE IF hit.val THEN Name_name_from_utf16_be(r.out.val)
            ELSE post_script_name_find(r.self, oc)

\* Font::post_script_name
post_script_name(f, oc) == post_script_name_find(names(f), oc)

----------------------------------------------------------------------------
\* The inputs: name tables as bytes

MaxCount == 2       \* the largest record count a header declares
MaxLangTags == 1    \* the most language-tag records a table holds
MaxStorage == 2     \* the most storage bytes after the records
MaxRecords == 2     \* the most records of a table of the resolution runs

RECURSIVE Concat(_)
Concat(ss) == IF ss = <<>> THEN <<>> ELSE Head(ss) \o Concat(Tail(ss))

\* The byte at 0-based position p of a table body: no two positions below 256
\* hold the same byte.
BodyByte(p) == (p * 37 + 11) % 256

MaxTableLen == 8 + LANG_TAG_RECORD_SIZE * MaxLangTags + NameRecord_SIZE * MaxCount + MaxStorage

OffsetFields == {0, 65535}
LangTagCounts == {0, 1, 16384, 65535}

\* The header words, then body bytes, cut at len bytes.
Table(header, len) ==
    SubSeq(header \o [i \in 1..MaxTableLen |-> BodyByte(Len(header) + i - 1)], 1, len)

Header(format, count, offset) == U16Bytes(format) \o U16Bytes(count) \o U16Bytes(offset)

NoTable == [present |-> FALSE, data |-> <<>>]

\* No table; tables of format 0 and of the unknown format 2; tables of format 1
\* with a language-tag count; each cut at every length.
StructFonts ==
    {NoTable}
    \cup {[present |-> TRUE, data |-> Table(Header(f, c, o), len)] :
            f \in {0, 2}, c \in 0..MaxCount, o \in OffsetFields, len \in 0..MaxTableLen}
    \cup {[present |-> TRUE, data |-> Table(Header(1, c, o) \o U16Bytes(w), len)] :
            c \in 0..MaxCount, o \in OffsetFields, w \in LangTagCounts,
            len \in 0..MaxTableLen}

\* A 12-byte name record.
Record(platform, encoding, name, offset, length) ==
    U16Bytes(platform) \o U16Bytes(encoding) \o U16Bytes(0) \o U16Bytes(name)
        \o U16Bytes(offset) \o U16Bytes(length)

\* A well-formed format 0 table of the records recs and the storage bytes.
Format0(recs, storage) ==
    U16Bytes(0) \o U16Bytes(Len(recs)) \o U16Bytes(6 + NameRecord_SIZE * Len(recs))
        \o Concat(recs) \o storage

NameOffsets == (0..(MaxStorage + 1)) \cup {65534, 65535}

\* One Windows record with every (offset, length) over every storage length.
NameFonts ==
    {[present |-> TRUE,
      data |-> Format0(<<Record(3, 1, FAMILY, o, l)>>, [i \in 1..n |-> 64 + i])] :
        o \in NameOffsets, l \in NameOffsets, n \in 0..MaxStorage}

\* (platform ID, encoding ID) of the resolution runs' records: Unicode,
\* Macintosh, Windows with and without the BMP encoding, an unknown platform.
Encodings == {<<0, 0>>, <<1, 0>>, <<3, 0>>, <<3, 1>>, <<5, 1>>}
NameIds == {FAMILY, 2, POST_SCRIPT_NAME, TYPOGRAPHIC_FAMILY}

\* The UTF-16BE storage of the resolution runs: "A", "B", ...; record i names
\* the i-th.
ResolveStorage(n) == Concat([i \in 1..n |-> <<0, 64 + i>>])

RecordKinds == Encodings \X NameIds

ResolveFonts ==
    UNION {
        {[present |-> TRUE,
          data |-> Format0([i \in 1..n |-> Record(ks[i][1][1], ks[i][1][2], ks[i][2],
                                                  2 * (i - 1), 2)],
                           ResolveStorage(n))] :
            ks \in [1..n -> RecordKinds]} :
        n \in 0..MaxRecords}

\* nth's arguments: the small indexes, and words whose 12 * n or 12 * n + 12
\* does not fit the machine word.
MaxNth == 2

HighLimb(h, rest, low) ==
    [k \in Limbs |-> IF k = USIZE_LIMBS THEN h ELSE IF k = 1 THEN low ELSE rest]

NthArgs ==
    {UsizeFromInt(i) : i \in 0..MaxNth} \cup
    {HighLimb(16384, 0, 0),              \* 12 * n = 3 * 2^64
     HighLimb(5461, 21845, 21846),       \* 12 * n = 2^64 + 8
     HighLimb(5461, 21845, 21845),       \* 12 * n = 2^64 - 4
     HighLimb(65535, 65535, 65535)}      \* usize::MAX

----------------------------------------------------------------------------
\* The caller

NoCall == [op |-> "none", arg |-> <<>>, val |-> None]

InitWith(fonts) ==
    /\ font \in fonts
    /\ overflow_checks \in BOOLEAN
    /\ pc = "start"
    /\ iter = EmptyNames
    /\ yielded = <<>>
    /\ ret = NoCall

Init == InitWith(StructFonts)
InitName == InitWith(NameFonts)
InitResolve == InitWith(ResolveFonts)

\* let mut it = font.names();
CallNames ==
    /\ pc # "panicked"
    /\ iter' = names(font)
    /\ pc' = "iter"
    /\ yielded' = <<>>
    /\ ret' = [op |-> "names", arg |-> <<>>, val |-> None]
    /\ UNCHANGED <<font, overflow_checks>>

\* it.next()
CallNext ==
    /\ pc = "iter"
    /\ LET r == Names_next(iter, overflow_checks)
       IN  /\ iter' = r.self
           /\ ret' = [op |-> "next", arg |-> <<>>, val |-> r.out]
           /\ yielded' = IF r.out.kind = "Some" THEN Append(yielded, r.out.val) ELSE yielded
           /\ pc' = IF r.out.kind = "Panic" THEN "panicked" ELSE pc
    /\ UNCHANGED <<font, overflow_checks>>

\* it.nth(n)
CallNth(n) ==
    /\ pc = "iter"
    /\ LET r == Names_nth(iter, n, overflow_checks)
       IN  /\ iter' = r.self
           /\ ret' = [op |-> "nth", arg |-> n, val |-> r.out]
           /\ pc' = IF r.out.kind = "Panic" THEN "panicked" ELSE pc
    /\ UNCHANGED <<font, overflow_checks, yielded>>

\* The record the last next() or nth() returned.
HoldsName == pc = "iter" /\ ret.op \in {"next", "nth"} /\ ret.val.kind = "Some"

\* name.name()
CallName ==
    /\ HoldsName
    /\ ret' = [op |-> "name", arg |-> ret.val.val, val |-> Some(Name_name(ret.val.val))]
    /\ UNCHANGED <<font, overflow_checks, pc, iter, yielded>>

\* name.name_utf8()
CallNameUtf8 ==
    /\ HoldsName
    /\ LET r == Name_name_utf8(ret.val.val)
       IN  /\ ret' = [op |-> "name_utf8", arg |-> ret.val.val, val |-> r]
           /\ pc' = IF r.kind = "Panic" THEN "panicked" ELSE pc
    /\ UNCHANGED <<font, overflow_checks, iter, yielded>>

\* font.family_name()
CallFamilyName ==
    /\ pc # "panicked"
    /\ LET r == family_name(font, overflow_checks)
       IN  /\ ret' = [op |-> "family_name", arg |-> <<>>, val |-> r]
           /\ pc' = IF r.kind = "Panic" THEN "panicked" ELSE pc
    /\ UNCHANGED <<font, overflow_checks, iter, yielded>>

\* font.post_script_name()
CallPostScriptName ==
    /\ pc # "panicked"
    /\ LET r == post_script_name(font, overflow_checks)
       IN  /\ ret' = [op |-> "post_script_name", arg |-> <<>>, val |-> r]
           /\ pc' = IF r.kind = "Panic" THEN "panicked" ELSE pc
    /\ UNCHANGED <<font, overflow_checks, iter, yielded>>

Next ==
    \/ CallNames
    \/ CallNext
    \/ \E n \in NthArgs : CallNth(n)

NextName ==
    \/ CallNames
    \/ CallNext
    \/ CallName

NextResolve ==
    \/ CallNames
    \/ CallNext
    \/ CallNameUtf8
    \/ CallFamilyName
    \/ CallPostScriptName

Spec == Init /\ [][Next]_vars
SpecName == InitName /\ [][NextName]_vars
SpecResolve == InitResolve /\ [][NextResolve]_vars

----------------------------------------------------------------------------
\* The table as the format lays it out, read off the bytes by position

TableLen == Len(font.data)
RawFormat == BeU16(font.data, 0)
RawCount == BeU16(font.data, 2)
RawLangTagCount == BeU16(font.data, 6)

\* A format 0 table with all of its declared records present.
WholeFormat0 ==
    /\ font.present
    /\ TableLen >= 6
    /\ RawFormat = 0
    /\ TableLen >= 6 + 12 * RawCount

\* A format 1 table with its language tags and all declared records present.
WholeFormat1 ==
    /\ font.present
    /\ TableLen >= 8
    /\ RawFormat = 1
    /\ RawLangTagCount * 4 < 65536
    /\ TableLen >= 8 + 4 * RawLangTagCount + 12 * RawCount

\* Missing, shorter than the header, of an unknown format, or without all of
\* the 12 * count record bytes.
Malformed ==
    \/ ~font.present
    \/ TableLen < 6
    \/ RawFormat \notin {0, 1}
    \/ RawFormat = 0 /\ TableLen < 6 + 12 * RawCount
    \/ RawFormat = 1 /\ (TableLen < 8 \/ TableLen < 8 + 4 * RawLangTagCount + 12 * RawCount)

\* The iterator yields nothing: it is empty and a next() on it returned None.
YieldsNothing ==
    /\ iter.total = 0
    /\ iter.names = <<>>
    /\ yielded = <<>>
    /\ ret.op = "next" => ret.val = None

\* C1: names() of a missing, too short, unknown-format or record-truncated table
\* is an iterator of zero records, whose first next() is None.
C1_EmptyOnFailure == (pc = "iter" /\ Malformed) => YieldsNothing

\* A table declaring two records and holding one of them whole; next() returned None.
C1_Witness ==
    /\ pc = "iter"
    /\ font.present /\ TableLen >= 6 + 12 /\ RawFormat = 0 /\ RawCount = 2
    /\ Malformed
    /\ ret.op = "next" /\ ret.val = None

\* C6: a format 1 table whose language-tag count times 4 does not fit 16 bits
\* fails to parse: names() is empty, no record is read from a wrapped position.
C6_LangTagOverflow ==
    (/\ pc = "iter"
     /\ font.present /\ TableLen >= 8 /\ RawFormat = 1
     /\ RawLangTagCount >= 16384)
        => YieldsNothing

\* Count 16384 (4 * 16384 wraps to 0) with a declared record whole at byte 8.
C6_Witness ==
    /\ pc = "iter"
    /\ font.present /\ TableLen >= 8 + 12 /\ RawFormat = 1
    /\ RawLangTagCount = 16384 /\ RawCount = 1
    /\ ret.op = "next" /\ ret.val = None

\* C7: format 0: records at [6, 6 + 12N), storage from there to the end; format 1
\* with C language tags: records at [8 + 4C, 8 + 4C + 12N), storage after them.
C7_FormatPositions ==
    /\ (pc = "iter" /\ WholeFormat0) =>
          /\ iter.names = SubSeq(font.data, 6 + 1, 6 + 12 * RawCount)
          /\ iter.storage = SubSeq(font.data, 6 + 12 * RawCount + 1, TableLen)
    /\ (pc = "iter" /\ WholeFormat1) =>
          LET at == 8 + 4 * RawLangTagCount
          IN  /\ iter.names = SubSeq(font.data, at + 1, at + 12 * RawCount)
              /\ iter.storage = SubSeq(font.data, at + 12 * RawCount + 1, TableLen)

\* A format 1 table with one language tag, records and storage bytes, parsed.
C7_Witness ==
    /\ pc = "iter" /\ WholeFormat1
    /\ RawLangTagCount = 1 /\ RawCount >= 1
    /\ BeU16(font.data, 4) = 65535
    /\ iter.storage # <<>>
    /\ Len(iter.names) = 12 * RawCount

\* C8: total = N = region length / 12; next() yields records 0 .. N-1 in order,
\* each 12 whole bytes, then None; index <= total.
C8_IterationOrder ==
    /\ iter.index <= iter.total
    /\ Len(iter.names) = 12 * iter.total
    /\ (pc # "start" /\ (WholeFormat0 \/ WholeFormat1)) => iter.total = RawCount
    /\ Len(yielded) = iter.index
    /\ \A i \in 1..Len(yielded) :
          /\ yielded[i].data = SubSeq(iter.names, 12 * (i - 1) + 1, 12 * i)
          /\ yielded[i].strings = iter.storage
    /\ ret.op = "next" =>
          /\ ret.val.kind = "None" => iter.index = iter.total
          /\ ret.val.kind = "Some" => ret.val.val = yielded[Len(yielded)]
          /\ ret.val.kind # "Panic"

\* Two records were yielded and the next() after them returned None.
C8_Witness ==
    /\ pc = "iter"
    /\ iter.total = 2 /\ RawCount = 2
    /\ Len(yielded) = 2
    /\ ret.op = "next" /\ ret.val = None

\* n < total, for an n of the word's width.
BelowTotal(n, total) == ~UsizeLeq(UsizeFromInt(total), n)

\* C9: nth(n) is the record at [12n, 12n + 12) when n < total and None, without
\* a panic, when n >= total, for every n of the machine word.
C9_NthInRangeOrNone ==
    ret.op = "nth" =>
        IF BelowTotal(ret.arg, iter.total)
        THEN ret.val = Some([data |-> SubSeq(iter.names, 12 * UsizeToInt(ret.arg) + 1,
                                             12 * UsizeToInt(ret.arg) + 12),
                             strings |-> iter.storage])
        ELSE ret.val = None

\* C10: nth(n) returns what it returns on a fresh iterator, the record at
\* [12n, 12n + 12) when n < total, and leaves index and total as they were.
C10_NthAbsolute ==
    [][ret'.op = "nth" =>
          /\ iter'.index = iter.index
          /\ iter'.total = iter.total
          /\ ret'.val = Names_nth(names(font), ret'.arg, overflow_checks).out
          /\ BelowTotal(ret'.arg, iter.total) =>
                ret'.val = Some([data |-> SubSeq(iter.names, 12 * UsizeToInt(ret'.arg) + 1,
                                                 12 * UsizeToInt(ret'.arg) + 12),
                                 strings |-> iter.storage])]_vars

\* nth(0) returned record 0 after next() had moved the iterator to its end.
C10_Witness ==
    /\ ret.op = "nth" /\ ret.arg = UsizeFromInt(0)
    /\ iter.index = 2 /\ iter.total = 2
    /\ ret.val.kind = "Some"
    /\ ret.val.val = yielded[1]

----------------------------------------------------------------------------
\* Name::name

\* C2: name() is storage[offset .. offset + length] when offset + length is at
\* most the storage length and the empty slice otherwise.
C2_NameSlice ==
    ret.op = "name" =>
        LET strings == ret.arg.strings
            offset == NameRecord_offset(ret.arg.data)
            length == NameRecord_length(ret.arg.data)
        IN  /\ strings = SubSeq(font.data, 6 + 12 + 1, TableLen)
            /\ ret.val = IF offset + length <= Len(strings)
                         THEN Some(SubSeq(strings, offset + 1, offset + length))
                         ELSE Some(<<>>)

\* name() of a record that starts inside the storage and ends past it.
C2_Witness ==
    /\ ret.op = "name"
    /\ NameRecord_offset(ret.arg.data) < Len(ret.arg.strings)
    /\ NameRecord_offset(ret.arg.data) + NameRecord_length(ret.arg.data) > Len(ret.arg.strings)
    /\ ret.val = Some(<<>>)

----------------------------------------------------------------------------
\* Resolution, over the records as the table lays them out

RecordAt(i) == SubSeq(font.data, 6 + 12 * i + 1, 6 + 12 * i + 12)
Records == 0..(RawCount - 1)

\* Platform Unicode, or platform Windows with encoding 1.
Resolvable(d) == BeU16(d, 0) = 0 \/ (BeU16(d, 0) = 3 /\ BeU16(d, 2) = 1)

Matching(id) == {i \in Records : BeU16(RecordAt(i), 6) = id /\ Resolvable(RecordAt(i))}

Min(S) == CHOOSE x \in S : \A y \in S : x <= y
Max(S) == CHOOSE x \in S : \A y \in S : y <= x

\* The text of record i: its storage bytes as UTF-16BE.
TextOf(i) ==
    Name_name_from_utf16_be([data |-> RecordAt(i),
                             strings |-> SubSeq(font.data, 6 + 12 * RawCount + 1, TableLen)])

\* C3: family_name() is the text of the first resolvable record with name ID 16,
\* else of the last resolvable record with name ID 1, else none.
C3_FamilyPriority ==
    ret.op = "family_name" =>
        ret.val = IF Matching(16) # {} THEN TextOf(Min(Matching(16)))
                  ELSE IF Matching(1) # {} THEN TextOf(Max(Matching(1)))
                  ELSE None

\* C4: the Unicode test never panics, whatever the platform ID, and holds iff
\* the platform is 0, or 3 with encoding 1; name_utf8, family_name and
\* post_script_name do not panic.
C4_UnicodeTestTotal ==
    /\ ret.op \in {"name_utf8", "family_name", "post_script_name"} => ret.val.kind # "Panic"
    /\ ret.op = "name_utf8" => (ret.val.kind = "Some" <=> Resolvable(ret.arg.data))

\* C5: post_script_name() is the text of the first resolvable record with name
\* ID 6, else none.
C5_PostScriptFirst ==
    ret.op = "post_script_name" =>
        ret.val = IF Matching(6) # {} THEN TextOf(Min(Matching(6))) ELSE None

\* Where no call panicked, the resolution is as C3, C4 and C5 say.
ResolutionUnlessPanic ==
    ret.val.kind # "Panic" =>
        /\ C3_FamilyPriority
        /\ C5_PostScriptFirst
        /\ ret.op = "name_utf8" => (ret.val.kind = "Some" <=> Resolvable(ret.arg.data))

\* A panic comes only from a record with a platform ID above 4.
PanicOnlyOnUnknownPlatform ==
    (ret.op \in {"name_utf8", "family_name", "post_script_name"} /\ ret.val.kind = "Panic")
        => \E i \in Records : BeU16(RecordAt(i), 0) > 4

====
